---- MODULE Spec2Model ----
(***************************************************************************)
(* Model of AppComponent (src/src/app/app.component.ts): the drag-and-drop *)
(* "item mover" widget.  The component's fields are the state; its event   *)
(* handlers, the zero-delay timer of dragStart and the tween/end callbacks *)
(* of the two d3 transitions are the actions.  The browser's drag session  *)
(* and the d3 transition schedule are the environment that calls them.     *)
(***************************************************************************)
EXTENDS Integers, Sequences, FiniteSets, TLC

(* ------------------------------ bounds -------------------------------- *)
\* animation progress t is one of 0/TDen .. TDen/TDen
TDen == 2
\* at most this many d3 transitions are scheduled or running at once
MaxTrans == 2
\* drop() is not called any more once dropped holds this many entries
MaxDropped == 3
\* at most this many zero-delay timers are pending at once
MaxTimers == 1
\* the browser begins at most this many drag sessions
MaxDrags == 3

(* ------------------------- program constants -------------------------- *)
\* .duration(500) of the cancel animation, .duration(1000) of the drop one
CancelDuration == 500
DropDuration == 1000
\* the model's clock advances in steps of the shorter duration
TimeUnit == CancelDuration
\* start style of the ghost, "must match the css rules for .draggable-item"
GhostWidth == 80
GhostHeight == 80
GhostLineHeight == 80
GhostBorderRadius == 50
\* end values of the drop animation that do not come from the target box
DroppedLineHeight == 20
DroppedBorderRadius == 0

\* `undefined` where an Item is expected
Undefined == 0
\* the three Item objects of ngOnInit, by identity
Items == {1, 2, 3}
ItemText(item) == CASE item = 1 -> "Item 1" [] item = 2 -> "Item 2" [] OTHER -> "Item 3"
ItemLeft(item) == 100 * item
ItemTop(item) == 100

\* event.pageX / event.pageY of the dragover events
PageXs == {140, 180}
PageYs == {150}
\* where inside the 80x80 item element the pointer is when a drag starts
GrabXs == {40}
GrabYs == {50}

VARIABLES
    initialised,    \* ngOnInit has run
    draggable,      \* Item[]: sequence of items
    dropped,        \* Item[]: sequence of items or Undefined
    dragging,       \* Item or Undefined
    visible,        \* visible field of each Item: "undefined", "true" or "false"
    dragItemStyle,  \* DragItemStyle, NoStyle while unassigned
    mouseOffset,    \* {x, y}
    timers,         \* pending setTimeout(.., 0) callbacks: the items they hide
    transitions,    \* d3 schedule: transitions created and not yet ended
    session,        \* browser drag session: "none", "own", "foreign", "ending"
    source,         \* item whose element is the source node of an own session
    dropAllowed,    \* the last dragover on the drop zone was cancelled
    drags,          \* number of drag sessions the browser has begun
    last            \* the handler or callback that ran last, and its event

vars == <<initialised, draggable, dropped, dragging, visible, dragItemStyle,
          mouseOffset, timers, transitions, session, source, dropAllowed, drags, last>>

component == <<draggable, dropped, dragging, visible, dragItemStyle, mouseOffset>>

(* ------------------------------ helpers ------------------------------- *)
\* dragItemStyle before dragStart assigned it
NoStyle == [left |-> -1, top |-> -1, width |-> -1, height |-> -1,
            lineHeight |-> -1, borderRadius |-> -1]

\* a DragEvent as the browser hands it to a handler
FreshEvent(type, px, py) ==
    [type |-> type, data |-> "",
     effectAllowed |-> "uninitialized", dragImage |-> "default",
     defaultPrevented |-> FALSE]

NoEvent == FreshEvent("none", 0, 0)

NoTransition == [kind |-> "none"]

\* record of the handler or callback that ran last
Ran(op, ev, ret, t, tw, was, threw) ==
    [op |-> op, event |-> ev, returned |-> ret, t |-> t, tw |-> tw,
     was |-> was, threw |-> threw]

\* Array.prototype.indexOf, 0-based, -1 when absent
RECURSIVE IndexFrom(_, _, _)
IndexFrom(arr, x, k) ==
    IF k > Len(arr) THEN -1
    ELSE IF arr[k] = x THEN k - 1
    ELSE IndexFrom(arr, x, k + 1)

indexOf(arr, x) == IndexFrom(arr, x, 1)

\* Array.prototype.splice(index, 1): a negative index counts from the end
splice1(arr, index) ==
    LET start == IF index < 0 THEN (IF Len(arr) + index < 0 THEN 0 ELSE Len(arr) + index)
                 ELSE (IF index > Len(arr) THEN Len(arr) ELSE index)
    IN  [k \in 1..(IF start < Len(arr) THEN Len(arr) - 1 ELSE Len(arr)) |->
            IF k <= start THEN arr[k] ELSE arr[k + 1]]

Contains(arr, x) == \E k \in 1..Len(arr) : arr[k] = x

\* truthiness of this.dragging
IsDragging == dragging # Undefined

(* ------------------------------ initial ------------------------------- *)
Init ==
    /\ initialised = FALSE
    /\ draggable = <<>>
    /\ dropped = <<>>
    /\ dragging = Undefined
    /\ visible = [item \in Items |-> "undefined"]
    /\ dragItemStyle = NoStyle
    /\ mouseOffset = [x |-> 0, y |-> 0]
    /\ timers = <<>>
    /\ transitions = <<>>
    /\ session = "none"
    /\ source = Undefined
    /\ dropAllowed = FALSE
    /\ drags = 0
    /\ last = Ran("constructor", NoEvent, "undefined", 0, NoTransition, Undefined, FALSE)

ngOnInit ==
    /\ ~initialised
    /\ initialised' = TRUE
    /\ draggable' = <<1, 2, 3>>
    /\ last' = Ran("ngOnInit", NoEvent, "undefined", 0, NoTransition, dragging, FALSE)
    /\ UNCHANGED <<drags, dropped, dragging, visible, dragItemStyle, mouseOffset, timers,
                   transitions, session, source, dropAllowed>>


(* --------------------------- d3.interpolate --------------------------- *)
\* d3.interpolate(a, b) for two numbers: the pair it closes over
interpolate(a, b) == <<a, b>>

\* i(t) of d3.interpolate(a, b) at progress t = k/TDen: a*(1 - t) + b*t
at(i, k) == (i[1] * (TDen - k) + i[2] * k) \div TDen

\* the value is a whole number of pixels (the model keeps no fractions)
Whole(i, k) == (i[1] * (TDen - k) + i[2] * k) % TDen = 0

(* ------------------------------ dragStart ----------------------------- *)
\* lines 107-114: start style of the ghost
StartStyle(item) ==
    [left |-> ItemLeft(item), top |-> ItemTop(item), width |-> GhostWidth,
     height |-> GhostHeight, lineHeight |-> GhostLineHeight,
     borderRadius |-> GhostBorderRadius]

\* dragStart without its guard
DragStartNeverRejected == FALSE

\* line 83: if(this.dragging){ return false; }
DragStartRejected == IsDragging

\* dragstart fires on the element of an item of draggable that is not hidden,
\* with the pointer inside that element;
\* a handler returning false cancels the event, so no drag session begins
dragStart(item, px, py, hasSetDragImage) ==
    /\ initialised
    /\ session = "none"
    /\ Contains(draggable, item)
    /\ visible[item] # "false"
    /\ px - ItemLeft(item) \in GrabXs
    /\ py - ItemTop(item) \in GrabYs
    /\ IF DragStartRejected
       THEN /\ last' = Ran("dragStart", FreshEvent("dragstart", px, py), "false", 0,
                           NoTransition, dragging, FALSE)
            /\ UNCHANGED <<initialised, drags, component, timers, transitions, session,
                           source, dropAllowed>>
       ELSE /\ hasSetDragImage => Len(timers) < MaxTimers
            /\ last' = Ran("dragStart",
                           [FreshEvent("dragstart", px, py) EXCEPT
                               !.data = ItemText(item),
                               !.effectAllowed = "move",
                               !.dragImage = IF hasSetDragImage THEN "drag-dummy"
                                             ELSE "default"],
                           "undefined", 0, NoTransition, dragging, FALSE)
            /\ dragging' = item
            /\ IF hasSetDragImage
               THEN /\ timers' = Append(timers, item)
                    /\ UNCHANGED visible
               ELSE /\ visible' = [visible EXCEPT ![item] = "false"]
                    /\ UNCHANGED timers
            /\ dragItemStyle' = StartStyle(item)
            /\ mouseOffset' = [x |-> px - ItemLeft(item), y |-> py - ItemTop(item)]
            /\ drags < MaxDrags
            /\ drags' = drags + 1
            /\ session' = "own"
            /\ source' = item
            /\ dropAllowed' = FALSE
            /\ UNCHANGED <<initialised, draggable, dropped, transitions>>

\* line 98: the callback of setTimeout(() => { item.visible = false; }, 0)
hideTimeout ==
    /\ timers # <<>>
    /\ visible' = [visible EXCEPT ![Head(timers)] = "false"]
    /\ timers' = Tail(timers)
    /\ last' = Ran("timeout", NoEvent, "undefined", 0, NoTransition, dragging, FALSE)
    /\ UNCHANGED <<initialised, drags, draggable, dropped, dragging, dragItemStyle,
                   mouseOffset, transitions, session, source, dropAllowed>>

(* ------------------------------- dragEnd ------------------------------ *)
\* a transition as d3 schedules it; `init` is filled when its tween factory runs
Transition(kind, el, item, droppedIndex, moved, duration) ==
    [kind |-> kind, el |-> el, item |-> item, droppedIndex |-> droppedIndex,
     moved |-> moved, state |-> "scheduled", remaining |-> duration \div TimeUnit,
     i |-> <<>>, init |-> <<>>]

\* event.target of dragend: the element rendered for the item
ItemElement(item) == ItemText(item)

\* dragend fires on the source element when the drag is cancelled, and after a
\* drop when the source element is still rendered
dragEnd(item) ==
    /\ session \in {"own", "ending"}
    /\ item = source
    /\ Len(transitions) < MaxTrans
    /\ transitions' = Append(transitions,
            Transition("cancel", ItemElement(item), item, -1, Undefined, CancelDuration))
    /\ session' = "none"
    /\ source' = Undefined
    /\ dropAllowed' = FALSE
    /\ last' = Ran("dragEnd", FreshEvent("dragend", 0, 0), "undefined", 0,
                   NoTransition, dragging, FALSE)
    /\ UNCHANGED <<initialised, drags, component, timers>>

(* ------------------------------ dragOver ------------------------------ *)
\* dragover fires on the drop zone during any drag session of the browser
dragOver ==
    /\ session \in {"own", "foreign"}
    /\ last' = Ran("dragOver",
                   [FreshEvent("dragover", 0, 0) EXCEPT !.defaultPrevented = IsDragging],
                   "undefined", 0, NoTransition, dragging, FALSE)
    /\ dropAllowed' = IsDragging
    /\ UNCHANGED <<initialised, drags, component, timers, transitions, session, source>>

\* the pointer leaves the drop zone: a release no longer drops there
dragLeave ==
    /\ session \in {"own", "foreign"}
    /\ dropAllowed
    /\ dropAllowed' = FALSE
    /\ UNCHANGED <<initialised, drags, component, timers, transitions, session, source, last>>

(* -------------------------------- drop -------------------------------- *)
\* elements a drop event can target: the zone itself or an element inside it
DropTargets == {"zone", "inner"}

\* drop fires on the drop zone when the last dragover there was cancelled
drop(target) ==
    /\ session \in {"own", "foreign"}
    /\ dropAllowed
    /\ target = "inner" => dropped # <<>>
    /\ Len(dropped) < MaxDropped
    /\ Len(transitions) < MaxTrans
    /\ LET index == indexOf(draggable, dragging)
           pushed == Append(dropped, dragging)
           droppedIndex == Len(pushed) - 1
       IN  /\ draggable' = splice1(draggable, index)
           /\ dropped' = pushed
           /\ transitions' = Append(transitions,
                  Transition("drop", target, Undefined, droppedIndex, dragging,
                             DropDuration))
    /\ session' = IF session = "own" /\ Contains(draggable', source)
                  THEN "ending" ELSE "none"
    /\ source' = IF session' = "ending" THEN source ELSE Undefined
    /\ dropAllowed' = FALSE
    /\ last' = Ran("drop",
                   [FreshEvent("drop", 0, 0) EXCEPT !.defaultPrevented = TRUE],
                   "undefined", 0, NoTransition, dragging, FALSE)
    /\ UNCHANGED <<initialised, drags, dragging, visible, dragItemStyle, mouseOffset, timers>>

(* --------------------------- moveDragElement -------------------------- *)
\* dragover fires on the drag container during any drag session
moveDragElement(px, py) ==
    /\ session \in {"own", "foreign"}
    /\ IF IsDragging
       THEN dragItemStyle' = [dragItemStyle EXCEPT !.left = px - mouseOffset.x,
                                                   !.top = py - mouseOffset.y]
       ELSE UNCHANGED dragItemStyle
    /\ last' = Ran("moveDragElement", FreshEvent("dragover", px, py), "undefined", 0,
                   NoTransition, dragging, FALSE)
    /\ UNCHANGED <<initialised, drags, draggable, dropped, dragging, visible, mouseOffset,
                   timers, transitions, session, source, dropAllowed>>

(* --------------------------- browser sessions ------------------------- *)
\* the user starts dragging something that is no item of the widget
foreignDragStart ==
    /\ initialised
    /\ session = "none"
    /\ drags < MaxDrags
    /\ drags' = drags + 1
    /\ session' = "foreign"
    /\ UNCHANGED <<initialised, component, timers, transitions, source, dropAllowed, last>>

\* a foreign drag ends without a drop on the zone
foreignDragEnd ==
    /\ session = "foreign"
    /\ session' = "none"
    /\ dropAllowed' = FALSE
    /\ UNCHANGED <<initialised, drags, component, timers, transitions, source, last>>


(* ---------------------------- d3 transitions -------------------------- *)
\* getBoundingClientRect() of the '.dropped-item' element at an index of the
\* rendered dropped list: rows of height 20 stacked in the drop zone
BoundingClientRect(index) ==
    [left |-> 400, top |-> 300 + 20 * index, right |-> 520, bottom |-> 320 + 20 * index]

\* the cancel interpolators with start and end exchanged
CancelInterpolatorsReversed ==
    [left |-> interpolate(ItemLeft(dragging), dragItemStyle.left),
     top |-> interpolate(ItemTop(dragging), dragItemStyle.top)]

\* lines 136-139: the interpolators of the cancel animation
CancelInterpolators ==
    [left |-> interpolate(dragItemStyle.left, ItemLeft(dragging)),
     top |-> interpolate(dragItemStyle.top, ItemTop(dragging))]

\* the drop interpolators taking the box's right and bottom edge for its size
DropInterpolatorsEdges(box) ==
    [left |-> interpolate(dragItemStyle.left, box.left),
     top |-> interpolate(dragItemStyle.top, box.top),
     width |-> interpolate(dragItemStyle.width, box.right),
     height |-> interpolate(dragItemStyle.height, box.bottom),
     lineHeight |-> interpolate(dragItemStyle.lineHeight, DroppedLineHeight),
     borderRadius |-> interpolate(dragItemStyle.borderRadius, DroppedBorderRadius)]

\* lines 204-211: the interpolators of the drop animation
DropInterpolators(box) ==
    [left |-> interpolate(dragItemStyle.left, box.left),
     top |-> interpolate(dragItemStyle.top, box.top),
     width |-> interpolate(dragItemStyle.width, box.right - box.left),
     height |-> interpolate(dragItemStyle.height, box.bottom - box.top),
     lineHeight |-> interpolate(dragItemStyle.lineHeight, DroppedLineHeight),
     borderRadius |-> interpolate(dragItemStyle.borderRadius, DroppedBorderRadius)]

\* the cancel step writing the size of the ghost as well
CancelStepAlsoSize(i, k) ==
    [dragItemStyle EXCEPT !.left = at(i.left, k), !.top = at(i.top, k),
                          !.width = at(i.left, k), !.height = at(i.top, k)]

\* lines 141-149: one animation step of the cancel animation
CancelStep(i, k) ==
    [dragItemStyle EXCEPT !.left = at(i.left, k), !.top = at(i.top, k)]

\* lines 213-225: one animation step of the drop animation
DropStep(i, k) ==
    [dragItemStyle EXCEPT !.left = at(i.left, k), !.top = at(i.top, k),
                          !.width = at(i.width, k), !.height = at(i.height, k),
                          !.lineHeight = at(i.lineHeight, k),
                          !.borderRadius = at(i.borderRadius, k)]

StepOf(tw, k) == IF tw.kind = "cancel" THEN CancelStep(tw.i, k) ELSE DropStep(tw.i, k)

AllWhole(tw, k) == \A f \in DOMAIN tw.i : Whole(tw.i[f], k)

\* the schedule without the entries at the positions in `gone`
RECURSIVE Without(_, _, _)
Without(seq, gone, k) ==
    IF k > Len(seq) THEN <<>>
    ELSE (IF k \in gone THEN <<>> ELSE <<seq[k]>>) \o Without(seq, gone, k + 1)

\* d3 starts a transition on the first frame after it was created, in order of
\* creation: it interrupts the transitions running on the same element, then
\* calls the tween factory given to attrTween
startTransition(k) ==
    /\ k \in 1..Len(transitions)
    /\ transitions[k].state = "scheduled"
    /\ \A j \in 1..(k - 1) : transitions[j].state = "running"
    /\ LET tw == transitions[k]
           interrupted == {j \in 1..(k - 1) : transitions[j].el = tw.el}
           box == BoundingClientRect(tw.droppedIndex)
           threw == tw.kind = "cancel" /\ ~IsDragging
           started == [tw EXCEPT
                          !.state = "running",
                          !.i = IF tw.kind = "cancel" THEN CancelInterpolators
                                ELSE DropInterpolators(box),
                          !.init = [style |-> dragItemStyle, dragging |-> dragging,
                                    box |-> box]]
       IN  /\ transitions' =
                 IF threw THEN Without(transitions, interrupted \cup {k}, 1)
                 ELSE Without([transitions EXCEPT ![k] = started], interrupted, 1)
           /\ last' = Ran(IF tw.kind = "cancel" THEN "cancelInit" ELSE "dropInit",
                          NoEvent, "undefined", 0, IF threw THEN tw ELSE started,
                          dragging, threw)
    /\ UNCHANGED <<initialised, drags, component, timers, session, source, dropAllowed>>

\* a frame of a running transition before its duration has elapsed
stepTransition(k, t) ==
    /\ k \in 1..Len(transitions)
    /\ transitions[k].state = "running"
    /\ t \in 0..(TDen - 1)
    /\ AllWhole(transitions[k], t)
    /\ dragItemStyle' = StepOf(transitions[k], t)
    /\ last' = Ran(IF transitions[k].kind = "cancel" THEN "cancelStep" ELSE "dropStep",
                   NoEvent, "undefined", t, transitions[k], dragging, FALSE)
    /\ UNCHANGED <<initialised, drags, draggable, dropped, dragging, visible, mouseOffset,
                   timers, transitions, session, source, dropAllowed>>

\* the cancel end callback without its last assignment
CancelEndKeepsDragging(tw) ==
    /\ visible' = [visible EXCEPT ![tw.item] = "true"]
    /\ UNCHANGED dragging

\* lines 152-157: the end callback of the cancel animation
CancelEnd(tw) ==
    /\ visible' = [visible EXCEPT ![tw.item] = "true"]
    /\ dragging' = Undefined

\* lines 228-233: the end callback of the drop animation; this.dragging.visible
\* throws a TypeError when this.dragging is undefined
DropEnd(tw) ==
    IF IsDragging
    THEN /\ visible' = [visible EXCEPT ![dragging] = "true"]
         /\ dragging' = Undefined
    ELSE UNCHANGED <<visible, dragging>>

\* the frame on which the duration has elapsed: the last step, at t = 1, and
\* then the end callback
endTransition(k) ==
    /\ k \in 1..Len(transitions)
    /\ transitions[k].state = "running"
    /\ transitions[k].remaining = 0
    /\ dragItemStyle' = StepOf(transitions[k], TDen)
    /\ IF transitions[k].kind = "cancel"
       THEN CancelEnd(transitions[k])
       ELSE DropEnd(transitions[k])
    /\ transitions' = Without(transitions, {k}, 1)
    /\ last' = Ran(IF transitions[k].kind = "cancel" THEN "cancelEnd" ELSE "dropEnd",
                   NoEvent, "undefined", TDen, transitions[k], dragging,
                   transitions[k].kind = "drop" /\ ~IsDragging)
    /\ UNCHANGED <<initialised, drags, draggable, dropped, mouseOffset, timers, session,
                   source, dropAllowed>>

\* TimeUnit milliseconds pass: the pending zero-delay timers have fired, the
\* created transitions have started and the elapsed ones have ended
advance ==
    /\ transitions # <<>>
    /\ timers = <<>>
    /\ \A k \in 1..Len(transitions) :
          transitions[k].state = "running" /\ transitions[k].remaining > 0
    /\ transitions' = [k \in 1..Len(transitions) |->
                         [transitions[k] EXCEPT !.remaining = @ - 1]]
    /\ UNCHANGED <<initialised, drags, component, timers, session, source, dropAllowed, last>>

(* --------------------------- specification ---------------------------- *)
Next ==
    \/ ngOnInit
    \/ \E item \in Items, gx \in GrabXs, gy \in GrabYs, hasSetDragImage \in BOOLEAN :
          dragStart(item, ItemLeft(item) + gx, ItemTop(item) + gy, hasSetDragImage)
    \/ hideTimeout
    \/ \E item \in Items : dragEnd(item)
    \/ dragOver
    \/ dragLeave
    \/ \E target \in DropTargets : drop(target)
    \/ \E px \in PageXs, py \in PageYs : moveDragElement(px, py)
    \/ foreignDragStart
    \/ foreignDragEnd
    \/ \E k \in 1..MaxTrans : startTransition(k)
    \/ \E k \in 1..MaxTrans, t \in 0..TDen : stepTransition(k, t)
    \/ \E k \in 1..MaxTrans : endTransition(k)
    \/ advance

Spec == Init /\ [][Next]_vars


\* the scheduling the browser and d3 guarantee: pending timers fire, created
\* transitions start, time passes and elapsed transitions end
LiveSpec ==
    /\ Spec
    /\ WF_vars(hideTimeout)
    /\ WF_vars(\E k \in 1..MaxTrans : startTransition(k))
    /\ WF_vars(\E k \in 1..MaxTrans : endTransition(k))
    /\ WF_vars(advance)

(* ------------------------------ properties ---------------------------- *)
RemoveItem(arr, x) == SelectSeq(arr, LAMBDA y : y # x)

Occurrences(arr, x) == Cardinality({k \in 1..Len(arr) : arr[k] = x})

DropHandler == \E target \in DropTargets : drop(target)

DragStartHandler ==
    \E item \in Items, gx \in GrabXs, gy \in GrabYs, hasSetDragImage \in BOOLEAN :
        dragStart(item, ItemLeft(item) + gx, ItemTop(item) + gy, hasSetDragImage)

\* C1: ngOnInit leaves three items in draggable and none in dropped; every
\* call of drop() removes exactly the item referenced by dragging from
\* draggable, keeping the order of the rest, and appends it to dropped.
C1_DropMovesDraggedItem ==
    [][/\ ngOnInit => (draggable' = <<1, 2, 3>> /\ dropped' = <<>>)
       /\ DropHandler =>
            /\ dragging \in Items
            /\ Contains(draggable, dragging)
            /\ draggable' = RemoveItem(draggable, dragging)
            /\ Len(draggable') = Len(draggable) - 1
            /\ dropped' = Append(dropped, dragging)]_vars

\* C2: every step of the cancel animation at progress t sets left and top to
\* l0 + (item.left - l0)*t and t0 + (item.top - t0)*t, (l0, t0) being the
\* ghost position when the tween was initialised and item the dragged item;
\* at t = 1 the ghost is at (item.left, item.top).
C2_CancelStepIsLinear ==
    last.op \in {"cancelStep", "cancelEnd"} =>
        LET l0 == last.tw.init.style.left
            t0 == last.tw.init.style.top
            item == last.tw.init.dragging
        IN  /\ dragItemStyle.left * TDen = l0 * TDen + (ItemLeft(item) - l0) * last.t
            /\ dragItemStyle.top * TDen = t0 * TDen + (ItemTop(item) - t0) * last.t
            /\ last.t = TDen => /\ dragItemStyle.left = ItemLeft(item)
                                /\ dragItemStyle.top = ItemTop(item)
            /\ last.op = "cancelEnd" => last.t = TDen

C2_Witness ==
    /\ last.op = "cancelStep"
    /\ last.t > 0
    /\ last.tw.init.style.left # ItemLeft(last.tw.init.dragging)
    /\ last.tw.init.style.top # ItemTop(last.tw.init.dragging)

\* C3: every step of the drop animation interpolates the six ghost style
\* fields linearly from their values when the tween was initialised; at t = 1
\* the ghost has the position and size of the box of the '.dropped-item'
\* element at the index the item received in dropped, lineHeight 20 and
\* borderRadius 0.
C3_DropStepIsLinear ==
    last.op \in {"dropStep", "dropEnd"} =>
        LET from == last.tw.init.style
            index == last.tw.droppedIndex
            box == BoundingClientRect(index)
            to == [left |-> box.left, top |-> box.top,
                   width |-> box.right - box.left, height |-> box.bottom - box.top,
                   lineHeight |-> 20, borderRadius |-> 0]
        IN  /\ index + 1 \in 1..Len(dropped)
            /\ dropped[index + 1] = last.tw.moved
            /\ \A f \in DOMAIN to :
                  dragItemStyle[f] * TDen = from[f] * TDen + (to[f] - from[f]) * last.t
            /\ last.t = TDen => dragItemStyle = to
            /\ last.op = "dropEnd" => last.t = TDen

C3_Witness ==
    /\ last.op = "dropEnd"
    /\ last.tw.droppedIndex = 1
    /\ last.tw.init.style.width = GhostWidth
    /\ dragItemStyle.width = 120
    /\ dragItemStyle.top = 320

\* C4: each of the three items is held exactly once by draggable and dropped
\* together; no entry is undefined and the lengths add up to 3.
C4_ItemsPartitioned ==
    initialised =>
        /\ \A item \in Items : Occurrences(draggable \o dropped, item) = 1
        /\ ~Contains(draggable \o dropped, Undefined)
        /\ Len(draggable) + Len(dropped) = 3

\* C5: a dragStart call made while dragging is set returns false and changes
\* nothing: the component's fields, the items, the event's dataTransfer and
\* the pending timers stay as they are.
C5_RejectedDragStartChangesNothing ==
    [][(DragStartHandler /\ dragging # Undefined) =>
          /\ last'.op = "dragStart"
          /\ last'.returned = "false"
          /\ last'.event.data = ""
          /\ last'.event.effectAllowed = "uninitialized"
          /\ last'.event.dragImage = "default"
          /\ UNCHANGED <<dragging, dragItemStyle, mouseOffset, visible, draggable,
                         dropped, timers, transitions>>]_vars

C5_Witness ==
    /\ last.op = "dragStart"
    /\ last.returned = "false"
    /\ last.was # Undefined
    /\ dragging = last.was

\* C6: between a successful dragStart on an item and the end callback of the
\* animation that finishes that drag, dragging equals the item.
C6_DraggingKeptUntilAnimationEnd ==
    /\ session \in {"own", "ending"} => dragging = source
    /\ \A k \in 1..Len(transitions) :
          transitions[k].kind = "cancel" => dragging = transitions[k].item

\* C7: when the end callback of a drop animation runs, dragging is defined
\* and references the item this drop() call moved into dropped.
C7_DropEndFindsDragging ==
    last.op = "dropEnd" =>
        /\ last.was # Undefined
        /\ last.was = last.tw.moved
        /\ ~last.threw

\* C8: after the end callback of the cancel animation the item is visible
\* and dragging is undefined; whenever dragging is undefined no item has
\* visible = false.
C8_NoHiddenItemWhenIdle ==
    /\ last.op = "cancelEnd" =>
          (visible[last.tw.item] = "true" /\ dragging = Undefined)
    /\ dragging = Undefined => \A item \in Items : visible[item] # "false"

\* C9: a dragEnd or drop is eventually followed by a state in which dragging
\* is undefined, given that timers fire and animations keep ticking.
C9_EventuallyUnlocked ==
    (last.op \in {"dragEnd", "drop"} /\ dragging # Undefined) ~> (dragging = Undefined)

C9_Witness ==
    /\ last.op \in {"cancelEnd", "dropEnd"}
    /\ last.was # Undefined
    /\ dragging = Undefined

\* C10: dragOver calls event.preventDefault exactly when the drag the user is
\* performing was started by a successful dragStart on one of the items and
\* has not yet been ended or dropped.
C10_DragOverAllowsOwnDragsOnly ==
    last.op = "dragOver" => (last.event.defaultPrevented <=> session = "own")

\* a step or the end of a cancel animation
CancelAnimationCallback ==
    \/ \E k \in 1..MaxTrans, t \in 0..TDen :
          /\ stepTransition(k, t)
          /\ transitions[k].kind = "cancel"
    \/ \E k \in 1..MaxTrans :
          /\ endTransition(k)
          /\ transitions[k].kind = "cancel"

\* C11: every step of the cancel animation and its end callback leave the
\* ghost's width, height, lineHeight and borderRadius, mouseOffset, draggable
\* and dropped unchanged.
C11_CancelAnimationFrame ==
    [][CancelAnimationCallback =>
          /\ dragItemStyle'.width = dragItemStyle.width
          /\ dragItemStyle'.height = dragItemStyle.height
          /\ dragItemStyle'.lineHeight = dragItemStyle.lineHeight
          /\ dragItemStyle'.borderRadius = dragItemStyle.borderRadius
          /\ UNCHANGED <<mouseOffset, draggable, dropped>>]_vars

C11_Witness ==
    /\ last.op = "cancelEnd"
    /\ last.tw.init.style.left # dragItemStyle.left
    /\ last.tw.init.style.top # dragItemStyle.top
    /\ dropped # <<>>

====
